---- MODULE Spec2Model ----
(***************************************************************************)
(* A model of the trader repository: the rate-limited fetch gate           *)
(* (src/src/utils/rate_limiter.py, MarketDataService.fetch_json), the      *)
(* signal scorer and risk engine (src/src/analysis/signal_generator.py)    *)
(* and the per-instrument cycle with its notification throttle             *)
(* (src/src/main.py).  Each subsystem has its own specification; the       *)
(* variables of the other subsystems stay parked at their initial values.  *)
(***************************************************************************)
EXTENDS Integers, Sequences, FiniteSets, TLC

VARIABLES
    \* ---- RateLimiter / fetch_json ----
    clock,          \* time.time(), in seconds
    sem,            \* RateLimiter.semaphore: the value of the asyncio.Semaphore
    request_times,  \* RateLimiter.request_times
    pc,             \* per fetch task: where it stands in fetch_json / acquire
    now_at,         \* per task: the local `now` captured in acquire()
    wake_at,        \* per task: the time its asyncio.sleep ends
    last_exit,      \* how the most recent fetch_json call left the gate
    grants,         \* the times acquire() actually returned, trailing window
    \* ---- SignalGenerator: scoring ----
    stage,          \* how far _generate_signal has got with the inputs below
    technical,      \* the IndicatorSet handed to _generate_signal
    trade_flow,     \* the trade-flow metrics (percent)
    market_depth,   \* the DepthSnapshot
    cfg_min,        \* strategy config: min_tech/min_flow/min_depth_conditions
    scores,         \* ComponentScores
    signal_type,    \* 'NEUTRAL' | 'BUY' | 'STRONG_BUY'
    signal_strength, \* current_score / max_possible_score, as [num, den]
    \* ---- SignalGenerator: risk metrics ----
    risk_in,        \* price, ATR, mid-band, recent lows and multipliers
    risk_out,       \* what _calculate_risk_metrics returned, in 1/200 units
    \* ---- TradingApp: the per-instrument cycle and the throttle ----
    today,              \* datetime.now().date(), as a day number
    current_date,       \* TradingApp.current_date
    sent_signals_today, \* TradingApp.sent_signals_today, per symbol
    min_signal_strength, \* TradingApp.min_signal_strength, in percent
    signal_log,         \* the rows of signal_history
    last_alert,         \* per symbol: the last alert handed to Telegram
    ev,                 \* what the last pass of the cycle loop did
    \* ---- analyze_trade_flow ----
    trades_data,        \* the trade window handed to analyze_trade_flow
    inst_threshold,     \* config: institutional_trade_threshold (nullable)
    flow_out,           \* what analyze_trade_flow returned or raised
    \* ---- TradingApp._analyze_stock: the fetches and analyze_stock ----
    an_pc,              \* where _analyze_stock stands for the instrument
    feed_columns,       \* the keys the rows of the historical feed carry
    all_points,         \* fetch_historical_data.all_points: rows, bad rows
    chunks,             \* chunk requests of fetch_historical_data so far
    last_fetch,         \* the last request of the pipeline and its return
    analysis,           \* what analyze_stock returned
    \* ---- one SignalGenerator scoring instrument after instrument ----
    gen_symbol,         \* SignalGenerator.stock_symbol_for_logging
    probe,              \* the inputs whose evaluations are compared
    memo,               \* what the first evaluation of the probe returned
    last_scored,        \* the last call of _generate_signal and its result
    probe_runs,         \* evaluations of the probe so far
    between,            \* other inputs were scored since the first of them
    \* ---- MarketDataService.fetch_market_data ----
    static_stock_data_cache, \* per asset_id: the cached static record
    last_cache_date,    \* MarketDataService.last_cache_date
    fetched_ok,         \* per asset_id: day its detail fetch last succeeded
    md_ev,              \* what the last fetch_market_data call did
    \* ---- TradingApp.run ----
    run_pc,             \* where run() stands
    queue,              \* stocks: the universe of the cycle under way
    handled,            \* what the cycle did for each instrument so far
    \* ---- calculate_technical_indicators ----
    ind_in,             \* rows of the frame, computations that raise
    ind_out             \* the dictionary returned

gateVars == <<clock, sem, request_times, pc, now_at, wake_at, last_exit, grants>>

scoreVars == <<stage, technical, trade_flow, market_depth, cfg_min, scores,
               signal_type, signal_strength>>

riskVars == <<risk_in, risk_out>>

cycleVars == <<today, current_date, sent_signals_today, min_signal_strength,
               signal_log, last_alert, ev>>

flowVars == <<trades_data, inst_threshold, flow_out>>

\* the analysers and services around the scorer, the gate and the cycle
analyzeVars == <<an_pc, feed_columns, all_points, chunks, last_fetch, analysis>>

rescoreVars == <<gen_symbol, probe, memo, last_scored, probe_runs, between>>

universeVars == <<static_stock_data_cache, last_cache_date, fetched_ok, md_ev>>

runVars == <<run_pc, queue, handled>>

indVars == <<ind_in, ind_out>>

outerVars == <<flowVars, analyzeVars, rescoreVars, universeVars, runVars>>

vars == <<gateVars, scoreVars, riskVars, cycleVars, outerVars, indVars>>

\* what each subsystem's steps leave alone
notGate == <<scoreVars, riskVars, cycleVars, outerVars, indVars>>
notScore == <<gateVars, riskVars, cycleVars, outerVars, indVars>>
notRisk == <<gateVars, scoreVars, cycleVars, outerVars, indVars>>
notCycle == <<gateVars, scoreVars, riskVars, outerVars, indVars>>
coreVars == <<gateVars, scoreVars, riskVars, cycleVars>>
notInd == <<coreVars, outerVars>>
notFlow == <<coreVars, analyzeVars, rescoreVars, universeVars, runVars,
             indVars>>
\* _analyze_stock leaves the gate, the risk record and the cycle alone; it
\* writes the scorer's and the trade-flow analyser's variables
notAnalyze == <<gateVars, riskVars, cycleVars, rescoreVars, universeVars,
                runVars, indVars>>
notRescore == <<coreVars, flowVars, analyzeVars, universeVars, runVars,
                indVars>>
\* fetch_market_data reads the date; the rest of the cycle's state is not its
notUniverse == <<gateVars, scoreVars, riskVars, current_date,
                 sent_signals_today, min_signal_strength, signal_log,
                 last_alert, ev, flowVars, analyzeVars, rescoreVars, runVars,
                 indVars>>
\* run() drives the cycle loop: it writes the cycle's variables and its own
notRun == <<gateVars, scoreVars, riskVars, flowVars, analyzeVars, rescoreVars,
            universeVars, indVars>>

Min(S) == CHOOSE x \in S : \A y \in S : x <= y

RECURSIVE SubsetsUpTo(_, _)
SubsetsUpTo(S, n) ==
    IF n = 0 THEN {{}}
    ELSE LET smaller == SubsetsUpTo(S, n - 1)
         IN  smaller \cup {f \cup {k} : f \in smaller, k \in S}

(***************************************************************************)
(*                    RateLimiter and fetch_json                           *)
(***************************************************************************)
NumTasks == 3
RequestsPerMinute == 2
MaxTime == 90
TimeStep == 30

MaxConcurrent == 2
Window == 60

Tasks == 1..NumTasks

ExitPaths == {"success", "ClientError", "TimeoutError", "Exception"}

NoExit == [path |-> "none", ret |-> "none"]

\* line 15: [t for t in self.request_times if now - t < 60]
Prune(times, now) == SelectSeq(times, LAMBDA t : now - t < Window)

\* line 18: 60 - (now - self.request_times[0])
SleepTime(times, now) == Window - (now - times[1])

SemaphoreFreeBroken(s) == s >= 0

\* asyncio.Semaphore.acquire proceeds only while the value is positive
SemaphoreFree(s) == s > 0

ReleaseSlotOnSuccessOnly(s, path) == IF path = "success" THEN s + 1 ELSE s

ReleaseSlotDropped(s, path) == s

\* __aexit__ -> release(): runs on every exit path of the `async with` body
ReleaseSlot(s, path) == s + 1

FetchJsonReturnUncaught(path) ==
    IF path = "success" THEN "json"
    ELSE IF path = "Exception" THEN "raise" ELSE "None"

\* fetch_json: the value returned for each way the request can end
FetchJsonReturn(path) == IF path = "success" THEN "json" ELSE "None"

GateStart ==
    /\ clock = 0
    /\ sem = MaxConcurrent
    /\ request_times = <<>>
    /\ pc = [t \in Tasks |-> "idle"]
    /\ now_at = [t \in Tasks |-> 0]
    /\ wake_at = [t \in Tasks |-> 0]
    /\ last_exit = NoExit
    /\ grants = <<>>

\* fetch_json is called: the task enters `async with self.rate_limiter`
\* and awaits the semaphore.
CallFetch(t) ==
    /\ pc[t] = "idle"
    /\ pc' = [pc EXCEPT ![t] = "waiting"]
    /\ UNCHANGED <<clock, sem, request_times, now_at, wake_at, last_exit, grants>>
    /\ UNCHANGED notGate

\* acquire(), from the semaphore being obtained to the sleep or the return.
AcquireSlot(t) ==
    /\ pc[t] = "waiting"
    /\ SemaphoreFree(sem)
    /\ sem' = sem - 1
    /\ LET now == clock
           pruned == Prune(request_times, now)
       IN  IF Len(pruned) >= RequestsPerMinute /\ SleepTime(pruned, now) > 0
              THEN /\ request_times' = pruned
                   /\ now_at' = [now_at EXCEPT ![t] = now]
                   /\ wake_at' = [wake_at EXCEPT ![t] = now + SleepTime(pruned, now)]
                   /\ pc' = [pc EXCEPT ![t] = "sleeping"]
                   /\ grants' = grants
              ELSE /\ request_times' = Append(pruned, now)
                   /\ now_at' = now_at
                   /\ wake_at' = wake_at
                   /\ pc' = [pc EXCEPT ![t] = "holding"]
                   /\ grants' = Append(Prune(grants, clock), clock)
    /\ UNCHANGED <<clock, last_exit>>
    /\ UNCHANGED notGate

\* acquire(), after asyncio.sleep: line 22 appends the `now` read before
\* the sleep, and acquire() returns.
WakeUp(t) ==
    /\ pc[t] = "sleeping"
    /\ clock >= wake_at[t]
    /\ request_times' = Append(request_times, now_at[t])
    /\ pc' = [pc EXCEPT ![t] = "holding"]
    /\ grants' = Append(Prune(grants, clock), clock)
    /\ now_at' = [now_at EXCEPT ![t] = 0]
    /\ wake_at' = [wake_at EXCEPT ![t] = 0]
    /\ UNCHANGED <<clock, sem, last_exit>>
    /\ UNCHANGED notGate

\* The wrapped request ends on one of its paths; __aexit__ releases the slot
\* and fetch_json returns.
ExitFetch(t, path) ==
    /\ pc[t] = "holding"
    /\ sem' = ReleaseSlot(sem, path)
    /\ pc' = [pc EXCEPT ![t] = "idle"]
    /\ last_exit' = [path |-> path, ret |-> FetchJsonReturn(path)]
    /\ UNCHANGED <<clock, request_times, now_at, wake_at, grants>>
    /\ UNCHANGED notGate

\* Time passes, up to the next timer of the event loop.
Tick ==
    /\ clock < MaxTime
    /\ \A t \in Tasks : pc[t] = "sleeping" => wake_at[t] > clock
    /\ LET timers == {wake_at[t] : t \in {u \in Tasks : pc[u] = "sleeping"}}
       IN  clock' = Min({clock + TimeStep} \cup timers)
    /\ grants' = Prune(grants, clock')
    /\ UNCHANGED <<sem, request_times, pc, now_at, wake_at, last_exit>>
    /\ UNCHANGED notGate

\* A finite set of concurrent fetches: fetch_json is called, any number of
\* times, within one window of the start.
CallFetchInTime(t) == clock < Window /\ CallFetch(t)

\* Time passes while calls may still come or a sleep of acquire() is pending.
TickWhilePending ==
    /\ clock < Window \/ \E t \in Tasks : pc[t] = "sleeping"
    /\ \A t \in Tasks : pc[t] = "sleeping" => wake_at[t] > clock
    /\ LET timers == {wake_at[t] : t \in {u \in Tasks : pc[u] = "sleeping"}}
       IN  clock' = Min({clock + TimeStep} \cup timers)
    /\ grants' = Prune(grants, clock')
    /\ UNCHANGED <<sem, request_times, pc, now_at, wake_at, last_exit>>
    /\ UNCHANGED notGate

NextGateLive ==
    \/ \E t \in Tasks : CallFetchInTime(t)
    \/ \E t \in Tasks : AcquireSlot(t)
    \/ \E t \in Tasks : WakeUp(t)
    \/ \E t \in Tasks, path \in ExitPaths : ExitFetch(t, path)
    \/ TickWhilePending

\* The event loop runs every task that can run: the semaphore wakes its
\* waiters, a sleep ends when its time has come, the wrapped request of a
\* holder ends on one of its paths, and time passes.
GateFairness ==
    /\ \A t \in Tasks : WF_vars(AcquireSlot(t))
    /\ \A t \in Tasks : WF_vars(WakeUp(t))
    /\ \A t \in Tasks : WF_vars(\E path \in ExitPaths : ExitFetch(t, path))
    /\ WF_vars(TickWhilePending)

NextGate ==
    \/ \E t \in Tasks : CallFetch(t)
    \/ \E t \in Tasks : AcquireSlot(t)
    \/ \E t \in Tasks : WakeUp(t)
    \/ \E t \in Tasks, path \in ExitPaths : ExitFetch(t, path)
    \/ Tick



(***************************************************************************)
(*                  SignalGenerator: scores, type, strength                *)
(***************************************************************************)
\* A nullable number is a sequence: <<>> is None, <<v>> is the number v.
None == <<>>
Some(v) == <<v>>

\* _score_technical_indicators.get_value: the default stands in for None
get_value(indicators, key, default) ==
    IF indicators[key] = None THEN default ELSE indicators[key][1]

\* tech_thresholds.get(...) defaults
rsi_oversold == 30
rsi_overbought == 70
adx_trend_threshold == 25
macd_signal_threshold == 0
\* RSI taken for a null RSI
rsi_default == 50
\* flow_thresholds.get(...) defaults, in percent
strong_buy_pressure == 65
high_institutional_ratio == 60
\* strategy_config.get('max_spread_pct', 0.02), in percent
max_spread_pct == 2
\* strategy_config.get('min_*_conditions') defaults
min_tech_default == 5
min_flow_default == 2
min_depth_default == 1

\* sum(conditions): the number of conditions that are True
CountTrue(conditions) ==
    Cardinality({i \in DOMAIN conditions : conditions[i]})

TechnicalConditions(indicators) ==
    LET macd == get_value(indicators, "macd", 0)
        macd_signal == get_value(indicators, "macd_signal", 0)
        macd_hist == get_value(indicators, "macd_hist", 0)
        rsi == get_value(indicators, "rsi", rsi_default)
        stoch_k == get_value(indicators, "stoch_k", 0)
        stoch_d == get_value(indicators, "stoch_d", 0)
        adx == get_value(indicators, "adx", 0)
        close == get_value(indicators, "close", 0)
        bb_mid == get_value(indicators, "bb_mid", 0)
        sma_20 == get_value(indicators, "sma_20", 0)
    IN  << macd > macd_signal,
           macd_hist > macd_signal_threshold,
           rsi_oversold < rsi /\ rsi < rsi_overbought,
           stoch_k > stoch_d,
           adx > adx_trend_threshold,
           close > bb_mid,
           close > sma_20 >>

ScoreTechnicalWeighted(indicators) ==
    CountTrue(TechnicalConditions(indicators))
        + (IF TechnicalConditions(indicators)[5] THEN 1 ELSE 0)

ScoreTechnicalIndicators(indicators) ==
    CountTrue(TechnicalConditions(indicators))

ScoreTradeFlow(flow) ==
    CountTrue(<< flow.buy_pressure > strong_buy_pressure,
                 flow.institutional_ratio > high_institutional_ratio >>)

\* (spread / current_price) < max_spread_pct, without the division
SpreadWithinLimit(spread, current_price) ==
    IF current_price > 0
    THEN spread * 100 < max_spread_pct * current_price
    ELSE spread * 100 > max_spread_pct * current_price

ScoreMarketDepthUnguarded(depth, current_price) ==
    CountTrue(<< depth.bids_vol > depth.asks_vol,
                 SpreadWithinLimit(depth.spread, current_price) >>)

ScoreMarketDepth(depth, current_price) ==
    IF depth.asks_vol = 0 \/ current_price = 0
    THEN 0
    ELSE CountTrue(<< depth.bids_vol > depth.asks_vol,
                      SpreadWithinLimit(depth.spread, current_price) >>)

\* technical.get('close', 0): the engine's close is never null
CurrentPrice(indicators) == indicators.close[1]

CalculateComponentScores(indicators, flow, depth) ==
    [technical |-> ScoreTechnicalIndicators(indicators),
     trade_flow |-> ScoreTradeFlow(flow),
     market_depth |-> ScoreMarketDepth(depth, CurrentPrice(indicators))]

\* sum(scores.values())
TotalConditions(sc) == sc.technical + sc.trade_flow + sc.market_depth

IsBuyAny(sc, m) ==
    \/ sc.technical >= m.tech
    \/ sc.trade_flow >= m.flow
    \/ sc.market_depth >= m.depth

IsBuy(sc, m) ==
    /\ sc.technical >= m.tech
    /\ sc.trade_flow >= m.flow
    /\ sc.market_depth >= m.depth

StrongBuyThresholdNoMargin(m) == m.tech + m.flow + m.depth

StrongBuyThreshold(m) == m.tech + m.flow + m.depth + 1

DetermineSignalType(sc, m) ==
    IF IsBuy(sc, m)
    THEN IF TotalConditions(sc) >= StrongBuyThreshold(m)
         THEN "STRONG_BUY"
         ELSE "BUY"
    ELSE "NEUTRAL"

\* 7 + 2 + 2
max_possible_score == 7 + 2 + 2

\* current_score / max_possible_score, kept as numerator and denominator
CalculateSignalStrength(sc) ==
    IF max_possible_score > 0
    THEN [num |-> TotalConditions(sc), den |-> max_possible_score]
    ELSE [num |-> 0, den |-> 1]

IndicatorKeys == {"macd", "macd_signal", "macd_hist", "rsi", "stoch_k",
                  "stoch_d", "adx", "close", "bb_mid", "sma_20"}

\* The IndicatorSets scored: every indicator may be null, the close is the
\* last close of the series (0 or 10.00, in hundredths).
IndicatorSets ==
    [macd : {None, Some(1)},
     macd_signal : {None, Some(0), Some(2)},
     macd_hist : {None, Some(1)},
     rsi : {None, Some(50), Some(80)},
     stoch_k : {None, Some(1)},
     stoch_d : {None, Some(0)},
     adx : {None, Some(30)},
     close : {Some(0), Some(1000)},
     bb_mid : {None, Some(2000)},
     sma_20 : {None, Some(2000)}]

TradeFlows == [buy_pressure : {0, 70}, institutional_ratio : {0, 65}]

\* fetch_market_depth: the zeroed snapshot of a failed fetch among them
DepthSnapshots ==
    [bids_vol : {0, 150}, asks_vol : {0, 100}, spread : {0, 5, 50}]

DefaultMinimums ==
    [tech |-> min_tech_default, flow |-> min_flow_default,
     depth |-> min_depth_default]

Minimums == [tech : {0, 3, 5, 8}, flow : {0, 1, 2, 3}, depth : {0, 1, 2}]

ComponentScores == [technical : 0..7, trade_flow : 0..2, market_depth : 0..2]

NoIndicators == [k \in IndicatorKeys |-> None]
NoFlow == [buy_pressure |-> 0, institutional_ratio |-> 0]
NoDepth == [bids_vol |-> 0, asks_vol |-> 0, spread |-> 0]
NoScores == [technical |-> 0, trade_flow |-> 0, market_depth |-> 0]
NoStrength == [num |-> 0, den |-> 1]

ScoreParked ==
    /\ stage = "parked"
    /\ technical = NoIndicators
    /\ trade_flow = NoFlow
    /\ market_depth = NoDepth
    /\ cfg_min = DefaultMinimums
    /\ scores = NoScores
    /\ signal_type = "NEUTRAL"
    /\ signal_strength = NoStrength

\* _generate_signal is about to be called on some inputs (default minimums)
ScoreStart ==
    /\ stage = "inputs"
    /\ technical \in IndicatorSets
    /\ trade_flow \in TradeFlows
    /\ market_depth \in DepthSnapshots
    /\ cfg_min = DefaultMinimums
    /\ scores = NoScores
    /\ signal_type = "NEUTRAL"
    /\ signal_strength = NoStrength

\* _determine_signal_type is about to be called on some ComponentScores
\* under some configured minimums
TypeStart ==
    /\ stage = "scored"
    /\ technical = NoIndicators
    /\ trade_flow = NoFlow
    /\ market_depth = NoDepth
    /\ cfg_min \in Minimums
    /\ scores \in ComponentScores
    /\ signal_type = "NEUTRAL"
    /\ signal_strength = NoStrength

\* _generate_signal, line 37: _calculate_component_scores
ScoreComponents ==
    /\ stage = "inputs"
    /\ scores' = CalculateComponentScores(technical, trade_flow, market_depth)
    /\ stage' = "scored"
    /\ UNCHANGED <<technical, trade_flow, market_depth, cfg_min, signal_type,
                   signal_strength>>
    /\ UNCHANGED notScore

\* _generate_signal, lines 38-39: _determine_signal_type and
\* _calculate_signal_strength
DetermineType ==
    /\ stage = "scored"
    /\ signal_type' = DetermineSignalType(scores, cfg_min)
    /\ signal_strength' = CalculateSignalStrength(scores)
    /\ stage' = "typed"
    /\ UNCHANGED <<technical, trade_flow, market_depth, cfg_min, scores>>
    /\ UNCHANGED notScore

NextScore ==
    \/ ScoreComponents
    \/ DetermineType

(***************************************************************************)
(*                 SignalGenerator._calculate_risk_metrics                 *)
(* Prices are integers; the results are kept in units of 1/200, so that    *)
(* 0.995 * low, 0.98 * price and (price + bb_mid) / 2 are whole numbers.   *)
(***************************************************************************)
MaxHistory == 6

\* strategy_config.get('structural_stop_lookback', 5)
structural_stop_lookback == 5

\* historical_data[-lookback_period:]
LastRows(rows, n) == SubSeq(rows, Len(rows) - n + 1, Len(rows))

MinOf(rows) == Min({rows[i] : i \in DOMAIN rows})

\* line 191
VolatilityStop(price, atr, sl_mult) ==
    IF atr > 0 /\ price > 0 THEN (price - atr * sl_mult) * 200 ELSE 0

\* lines 194-203: 0.995 times the lowest low of the last lookback rows
StructuralStop(lows) ==
    IF Len(lows) > 0 /\ Len(lows) >= structural_stop_lookback
    THEN MinOf(LastRows(lows, structural_stop_lookback)) * 199
    ELSE 0

\* lines 206-211
StopLoss(price, atr, sl_mult, lows) ==
    LET volatility_stop == VolatilityStop(price, atr, sl_mult)
        structural_stop == StructuralStop(lows)
    IN  IF structural_stop > 0 /\ volatility_stop > 0
        THEN Min({volatility_stop, structural_stop})
        ELSE IF volatility_stop > 0
             THEN volatility_stop
             ELSE price * 196

\* line 215
TakeProfit(price, atr, tp_mult) ==
    IF atr > 0 /\ price > 0 THEN (price + atr * tp_mult) * 200 ELSE 0

\* lines 218-222
AdjustedBuyPrice(price, bb_mid) ==
    IF price > 0 /\ bb_mid > 0 /\ price > bb_mid
    THEN (price + bb_mid) * 100
    ELSE price * 200

\* `atr > 0` and `bb_mid > 0` on None raise TypeError; `price > 0 and
\* bb_mid > 0` reads bb_mid only when the price is positive.
RiskRaises(in) ==
    \/ in.atr = None
    \/ (in.price > 0 /\ in.bb_mid = None)

CalculateRiskMetrics(in) ==
    IF RiskRaises(in)
    THEN [status |-> "TypeError", stop_loss |-> 0, take_profit |-> 0,
          adjusted_buy_price |-> 0]
    ELSE [status |-> "ok",
          stop_loss |-> StopLoss(in.price, in.atr[1], in.sl_mult, in.lows),
          take_profit |-> TakeProfit(in.price, in.atr[1], in.tp_mult),
          adjusted_buy_price |->
              AdjustedBuyPrice(in.price,
                               IF in.bb_mid = None THEN 0 ELSE in.bb_mid[1])]

LowHistories == UNION {[1..n -> {8, 12}] : n \in 0..MaxHistory}

RiskInputs ==
    [price : {0, 10, 20},
     atr : {None, Some(0), Some(1), Some(5)},
     bb_mid : {None, Some(0), Some(6), Some(15)},
     lows : LowHistories,
     sl_mult : {1, 2},
     tp_mult : {2, 5}]

RiskPending ==
    [status |-> "pending", stop_loss |-> 0, take_profit |-> 0,
     adjusted_buy_price |-> 0]

RiskParked ==
    /\ risk_in = [price |-> 0, atr |-> None, bb_mid |-> None, lows |-> <<>>,
                  sl_mult |-> 1, tp_mult |-> 1]
    /\ risk_out = RiskPending

RiskStart ==
    /\ risk_in \in RiskInputs
    /\ risk_out = RiskPending

\* _generate_signal, line 52: _calculate_risk_metrics
ComputeRisk ==
    /\ risk_out.status = "pending"
    /\ risk_in \in RiskInputs
    /\ risk_out' = CalculateRiskMetrics(risk_in)
    /\ UNCHANGED risk_in
    /\ UNCHANGED notRisk

NextRisk == ComputeRisk

(***************************************************************************)
(*        TradingApp: _process_market_cycle, _process_signals,             *)
(*        _store_signal, _send_signal_alerts                               *)
(***************************************************************************)
MaxDay == 1
Symbols == {"A", "B"}
\* stock.get('symbol') of an instrument the feeds give no symbol for
NoSymbol == ""

\* TradingApp.min_signal_strength: 0.75 by default
min_signal_strength_default == 75

\* line 172: the strength delta 0.05, in percent
strength_delta == 5

\* signal['signal_strength'] >= self.min_signal_strength
MeetsMinStrengthAlways(strength, min_pct) == TRUE

MeetsMinStrength(strength, min_pct) ==
    strength.num * 100 >= min_pct * strength.den

\* lines 65-68: which analysis outcomes go on to _process_signals
PassesFilter(outcome, type, strength, min_pct) ==
    /\ outcome = "signal"
    /\ type # "NEUTRAL"
    /\ MeetsMinStrength(strength, min_pct)

\* the columns of SignalHistory (database/models.py)
SignalHistoryColumns ==
    {"id", "symbol", "timestamp", "price", "signal_type",
     "technical_indicators", "market_depth", "trade_flow", "signal_strength",
     "market_cap", "sector", "target", "buy_price", "stop_loss"}

\* the keyword arguments _store_signal passes to SignalHistory(...)
StoreSignalKeywords ==
    {"symbol", "timestamp", "price", "signal_type", "technical_indicators",
     "market_depth", "trade_flow", "signal_strength", "target", "buy_price",
     "stop_loss", "position_size_egp", "shares_to_buy"}

\* the declarative constructor raises TypeError for a keyword that is no
\* attribute of the mapped class
ConstructorRaises == ~(StoreSignalKeywords \subseteq SignalHistoryColumns)

StoreSignalNoRollback(log, sig) ==
    Append(log, [symbol |-> sig.symbol, signal_type |-> sig.signal_type,
                 num |-> sig.strength.num])

\* _store_signal: add and commit, or log and roll back on any exception
StoreSignal(log, sig) ==
    IF ConstructorRaises
    THEN log
    ELSE Append(log, [symbol |-> sig.symbol, signal_type |-> sig.signal_type,
                      num |-> sig.strength.num])

AbsDiff(a, b) == IF a >= b THEN a - b ELSE b - a

\* abs(last.signal_strength - signal.signal_strength) > 0.05
StrengthMoved(a, b) ==
    AbsDiff(a.num * b.den, b.num * a.den) * 100 > strength_delta * a.den * b.den

\* lines 168-173
IsDifferent(last_signal, sig) ==
    \/ last_signal = None
    \/ last_signal[1].signal_type # sig.signal_type
    \/ StrengthMoved(last_signal[1].strength, sig.strength)

\* _format_signal_message: f"{rsi:.1f}" raises TypeError for a null RSI
\* (a null macd, last_change_prc or pe_ratio does the same)
FormatRaises(sig) == sig.rsi = None

NoMemory == [s \in Symbols |-> None]

MemoryClearedEveryPass(mem, day, last_reset) == NoMemory

\* lines 158-161
MemoryAtPass(mem, day, last_reset) == IF day # last_reset THEN NoMemory ELSE mem

\* what is remembered of a signal: its type and strength
Remembered(sig) ==
    Some([signal_type |-> sig.signal_type, strength |-> sig.strength])

NoEvent ==
    [op |-> "start", outcome |-> "none", symbol |-> NoSymbol,
     signal_type |-> "NEUTRAL", num |-> 0, emitted |-> FALSE,
     stored |-> FALSE, is_different |-> FALSE, alerted |-> FALSE,
     raised |-> FALSE, cleared |-> FALSE]

CycleStart ==
    /\ today = 0
    /\ current_date = 0
    /\ sent_signals_today = NoMemory
    /\ min_signal_strength \in {70, min_signal_strength_default}
    /\ signal_log = <<>>
    /\ last_alert = NoMemory
    /\ ev = NoEvent

CycleParked ==
    /\ today = 0
    /\ current_date = 0
    /\ sent_signals_today = NoMemory
    /\ min_signal_strength = min_signal_strength_default
    /\ signal_log = <<>>
    /\ last_alert = NoMemory
    /\ ev = NoEvent

\* the signal types and strengths _generate_signal yields over all
\* ComponentScores (default minimums)
TypedStrengths ==
    {[signal_type |-> DetermineSignalType(sc, DefaultMinimums),
      strength |-> CalculateSignalStrength(sc)] : sc \in ComponentScores}

\* the signals analyze_stock can hand to the loop
Signals ==
    {[symbol |-> sym, signal_type |-> ts.signal_type,
      strength |-> ts.strength, rsi |-> r] :
        sym \in Symbols \cup {NoSymbol}, ts \in TypedStrengths,
        r \in {None, Some(50)}}

\* One pass of the loop of _process_market_cycle in which _analyze_stock
\* raises (caught at line 74) or returns None: nothing else happens.
FailPass(sym, outcome) ==
    /\ outcome \in {"raise", "none"}
    /\ ev' = [NoEvent EXCEPT !.op = "process", !.outcome = outcome,
                             !.symbol = sym, !.raised = (outcome = "raise")]
    /\ UNCHANGED <<today, current_date, sent_signals_today,
                   min_signal_strength, signal_log, last_alert>>

AnalysisFails(sym, outcome) == FailPass(sym, outcome) /\ UNCHANGED notCycle

\* One pass of the loop of _process_market_cycle on a signal: the filter of
\* lines 65-68, then _process_signals: _store_signal and _send_signal_alerts.
StockPass(sig) ==
    LET emitted == PassesFilter("signal", sig.signal_type, sig.strength,
                                min_signal_strength)
        log == IF emitted THEN StoreSignal(signal_log, sig) ELSE signal_log
        mem == MemoryAtPass(sent_signals_today, today, current_date)
        compared == emitted /\ sig.symbol # NoSymbol
        different == compared /\ IsDifferent(mem[sig.symbol], sig)
        raises == different /\ FormatRaises(sig)
        alerted == different /\ ~raises
    IN  /\ signal_log' = log
        /\ current_date' = IF emitted THEN today ELSE current_date
        /\ sent_signals_today' =
               IF ~emitted THEN sent_signals_today
               ELSE IF alerted
                    THEN [mem EXCEPT ![sig.symbol] = Remembered(sig)]
                    ELSE mem
        /\ last_alert' =
               IF alerted
               THEN [last_alert EXCEPT ![sig.symbol] =
                        Some([day |-> today, signal_type |-> sig.signal_type,
                              strength |-> sig.strength])]
               ELSE last_alert
        /\ ev' = [op |-> "process", outcome |-> "signal",
                  symbol |-> sig.symbol, signal_type |-> sig.signal_type,
                  num |-> sig.strength.num, emitted |-> emitted,
                  stored |-> (log # signal_log),
                  is_different |-> different, alerted |-> alerted,
                  raised |-> raises,
                  cleared |-> (emitted /\ today # current_date)]
        /\ UNCHANGED <<today, min_signal_strength>>

ProcessStock(sig) == StockPass(sig) /\ UNCHANGED notCycle

\* The calendar day changes.
Midnight ==
    /\ today < MaxDay
    /\ today' = today + 1
    /\ ev' = [NoEvent EXCEPT !.op = "midnight"]
    /\ UNCHANGED <<current_date, sent_signals_today, min_signal_strength,
                   signal_log, last_alert>>
    /\ UNCHANGED notCycle

NextCycle ==
    \/ \E sym \in Symbols \cup {NoSymbol}, outcome \in {"raise", "none"} :
           AnalysisFails(sym, outcome)
    \/ \E sig \in Signals : ProcessStock(sig)
    \/ Midnight

(***************************************************************************)
(*                 analyze_trade_flow (analysis/trade_flow.py)             *)
(* A field of a trade record is absent, null, a non-numeric text or a      *)
(* number.  Of the alternative key names the code tries for one field the  *)
(* first is modelled; the windows carry no timestamp, so the order of the  *)
(* window is the order price changes are taken in.  Ratios are kept as     *)
(* numerator and denominator.                                              *)
(***************************************************************************)
MaxTrades == 2

Absent == [k |-> "absent", v |-> 0]
Null == [k |-> "null", v |-> 0]
Text == [k |-> "text", v |-> 0]
Num(n) == [k |-> "num", v |-> n]

Zero == [num |-> 0, den |-> 1]

\* `a / b if b > 0 else 0`
Ratio(a, b) == IF b > 0 THEN [num |-> a, den |-> b] ELSE Zero

RECURSIVE Sum(_)
Sum(seq) == IF seq = <<>> THEN 0 ELSE seq[1] + Sum(Tail(seq))

\* seq[-min(n, len(seq)):]
LastOf(seq, n) ==
    IF Len(seq) <= n THEN seq ELSE SubSeq(seq, Len(seq) - n + 1, Len(seq))

\* `field in trade and trade[field] is not None`, then float(trade[field])
\* without ValueError or TypeError
FloatReadable(f) == f.k = "num"

get_trade_volume(trade) ==
    IF FloatReadable(trade.volume) THEN trade.volume.v ELSE 0

get_trade_price(trade) ==
    IF FloatReadable(trade.price) THEN trade.price.v ELSE 0

get_trade_side(trade) ==
    IF trade.side \in {"BUY", "B"} THEN "BUY"
    ELSE IF trade.side \in {"SELL", "S"} THEN "SELL"
    ELSE "UNKNOWN"

\* trade.get('price', 0) is truthy: a non-zero number or a non-empty text
PriceTruthy(trade) ==
    \/ trade.price.k = "text"
    \/ (trade.price.k = "num" /\ trade.price.v # 0)

\* get_trade_value, line 103: `price * volume` with the raw price; a text
\* times a float raises TypeError
GetTradeValueRaises(trade) ==
    /\ ~FloatReadable(trade.value)
    /\ trade.price.k = "text"
    /\ get_trade_volume(trade) # 0

get_trade_value(trade) ==
    IF FloatReadable(trade.value) THEN trade.value.v
    ELSE IF PriceTruthy(trade) /\ get_trade_volume(trade) # 0
         THEN trade.price.v * get_trade_volume(trade)
         ELSE 0

\* classify_trades, line 69: `value >= threshold` raises TypeError for a
\* threshold that is None; get_trade_value may raise before it
ClassifyRaises(trades, threshold) ==
    /\ trades # <<>>
    /\ \/ threshold = None
       \/ \E i \in DOMAIN trades : GetTradeValueRaises(trades[i])

Institutional(trades, th) ==
    SelectSeq(trades, LAMBDA t : get_trade_value(t) >= th)

Retail(trades, th) ==
    SelectSeq(trades, LAMBDA t : ~(get_trade_value(t) >= th))

Values(trades) == [i \in DOMAIN trades |-> get_trade_value(trades[i])]

Volumes(trades) == [i \in DOMAIN trades |-> get_trade_volume(trades[i])]

SideVolumes(trades, side) ==
    [i \in DOMAIN trades |->
        IF get_trade_side(trades[i]) = side
        THEN get_trade_volume(trades[i]) ELSE 0]

SideCount(trades, side) ==
    Cardinality({i \in DOMAIN trades : get_trade_side(trades[i]) = side})

\* calculate_buy_pressure / calculate_sell_pressure over both classes
Pressure(inst, retail, side) ==
    Ratio(Sum(SideVolumes(inst \o retail, side)), Sum(Volumes(inst \o retail)))

\* calculate_volume_metrics: institutional notional over total notional
InstitutionalRatio(inst, retail) ==
    Ratio(Sum(Values(inst)), Sum(Values(inst)) + Sum(Values(retail)))

\* the fractional price changes between consecutive priced trades
PriceChanges(trades) ==
    LET pairs == SelectSeq([i \in 1..(Len(trades) - 1) |-> i],
                           LAMBDA i : /\ get_trade_price(trades[i]) > 0
                                      /\ get_trade_price(trades[i + 1]) > 0)
    IN  [j \in DOMAIN pairs |->
            [num |-> get_trade_price(trades[pairs[j] + 1])
                       - get_trade_price(trades[pairs[j]]),
             den |-> get_trade_price(trades[pairs[j]])]]

RECURSIVE FractionSum(_)
FractionSum(fs) ==
    IF fs = <<>> THEN Zero
    ELSE LET rest == FractionSum(Tail(fs))
         IN  [num |-> fs[1].num * rest.den + rest.num * fs[1].den,
              den |-> fs[1].den * rest.den]

\* calculate_price_impact: np.mean(price_changes), or 0 without changes
PriceImpact(inst, retail) ==
    LET changes == PriceChanges(inst) \o PriceChanges(retail)
    IN  IF changes = <<>> THEN Zero
        ELSE [num |-> FractionSum(changes).num,
              den |-> FractionSum(changes).den * Len(changes)]

NoPatterns ==
    [institutional_buying |-> FALSE, institutional_selling |-> FALSE,
     retail_accumulation |-> FALSE, retail_distribution |-> FALSE,
     volume_surge |-> FALSE]

\* analyze_trade_patterns: buy ratio over the last 5 institutional and the
\* last 10 retail trades; volume of the last 5 against the 5 before them
\* of the institutional trades followed by the retail trades
TradePatterns(inst, retail) ==
    LET inst_buy == SideCount(LastOf(inst, 5), "BUY")
        inst_all == inst_buy + SideCount(LastOf(inst, 5), "SELL")
        ret_buy == SideCount(LastOf(retail, 10), "BUY")
        ret_all == ret_buy + SideCount(LastOf(retail, 10), "SELL")
        all_trades == inst \o retail
        n == Len(all_trades)
        recent_vol == Sum(Volumes(LastOf(all_trades, 5)))
        prev_vol == IF n >= 10
                    THEN Sum(Volumes(SubSeq(all_trades, n - 9, n - 5)))
                    ELSE 0
    IN  [institutional_buying |-> inst_all > 0 /\ inst_buy * 10 > 7 * inst_all,
         institutional_selling |-> inst_all > 0 /\ inst_buy * 10 < 3 * inst_all,
         retail_accumulation |-> ret_all > 0 /\ ret_buy * 10 > 6 * ret_all,
         retail_distribution |-> ret_all > 0 /\ ret_buy * 10 < 4 * ret_all,
         volume_surge |-> n >= 10 /\ prev_vol > 0 /\ 2 * recent_vol > 3 * prev_vol]

\* create_empty_trade_flow
EmptyTradeFlow ==
    [status |-> "ok", buy_pressure |-> Zero, sell_pressure |-> Zero,
     institutional_ratio |-> Zero, price_impact |-> Zero,
     trade_patterns |-> NoPatterns, total_trades |-> 0]

FlowRaised == [EmptyTradeFlow EXCEPT !.status = "TypeError"]

FlowPending == [EmptyTradeFlow EXCEPT !.status = "pending"]

WindowTradesOfAnyForm(data) == data.trades

\* lines 15-29: the trades of the window, whatever form it comes in; a value
\* that is neither list nor dict has none
WindowTrades(data) ==
    IF data.form \in {"list", "dict"} THEN data.trades ELSE <<>>

AnalyzeTradeFlow(data, threshold) ==
    LET trades == WindowTrades(data)
    IN  IF trades = <<>> THEN EmptyTradeFlow
        ELSE IF ClassifyRaises(trades, threshold) THEN FlowRaised
        ELSE LET inst == Institutional(trades, threshold[1])
                 retail == Retail(trades, threshold[1])
             IN  [status |-> "ok",
                  buy_pressure |-> Pressure(inst, retail, "BUY"),
                  sell_pressure |-> Pressure(inst, retail, "SELL"),
                  institutional_ratio |-> InstitutionalRatio(inst, retail),
                  price_impact |-> PriceImpact(inst, retail),
                  trade_patterns |-> TradePatterns(inst, retail),
                  total_trades |-> Len(trades)]

\* the trade records of the recent-trades feed
Trades ==
    [value : {Absent, Null, Text, Num(100)},
     price : {Absent, Text, Num(10)},
     volume : {Absent, Num(2)},
     side : {"BUY", "SELL"}]

Windows == UNION {[1..n -> Trades] : n \in 0..MaxTrades}

\* what analyze_trade_flow may be handed: None, a list, a dict with
\* 'trades', a dict without, or a value that is neither list nor dict
\* (a tuple of trade records, say)
TradeInputs ==
    [form : {"list", "dict", "other"}, trades : Windows]
        \cup {[form |-> f, trades |-> <<>>] : f \in {"none", "dict_no_trades"}}

InstitutionalThresholds == {None, Some(50)}

FlowParked ==
    /\ trades_data = [form |-> "none", trades |-> <<>>]
    /\ inst_threshold = None
    /\ flow_out = FlowPending

FlowStart ==
    /\ trades_data \in TradeInputs
    /\ inst_threshold \in InstitutionalThresholds
    /\ flow_out = FlowPending

\* analyze_trade_flow(trades_data, config)
RunTradeFlow ==
    /\ flow_out.status = "pending"
    /\ flow_out' = AnalyzeTradeFlow(trades_data, inst_threshold)
    /\ UNCHANGED <<trades_data, inst_threshold>>
    /\ UNCHANGED notFlow

NextFlow == RunTradeFlow

\* `len(all_trades) >= 10`
surge_min_trades == 10

MaxInstitutional == 2

\* windows of 9, 10 and 11 trades, oldest first: every trade a retail buy of
\* volume 2 carrying its value and no price, but for at most MaxInstitutional
\* trades of institutional value and at most one trade of volume 10
SurgeWindows ==
    UNION {{[i \in 1..n |->
                [value |-> IF i \in inst THEN Num(100) ELSE Num(10),
                 price |-> Absent,
                 volume |-> IF i = big THEN Num(10) ELSE Num(2),
                 side |-> "BUY"]] :
              big \in 0..n, inst \in SubsetsUpTo(1..n, MaxInstitutional)} :
           n \in (surge_min_trades - 1)..(surge_min_trades + 1)}

SurgeStart ==
    /\ trades_data \in [form : {"list"}, trades : SurgeWindows]
    /\ inst_threshold = Some(50)
    /\ flow_out = FlowPending

(***************************************************************************)
(*   TradingApp._analyze_stock: fetch_historical_data, fetch_market_depth, *)
(*   fetch_recent_trades, then SignalGenerator.analyze_stock with          *)
(*   calculate_technical_indicators.  A price series is the number of its  *)
(*   rows, the number of rows that fail numeric coercion of close, high,   *)
(*   low or volume, and the keys its rows carry.                           *)
(***************************************************************************)
\* technical.py: `len(history) < 26`, `len(df) < 26`
min_history_rows == 26
\* fetch_historical_data: `for _ in range(5)`, `len(all_points) >= 100`
max_history_chunks == 5
enough_points == 100

\* required_mapping: the accepted names of each required column
required_mapping ==
    [close |-> {"close", "Close", "CLOSE"},
     high |-> {"high", "High", "HIGH"},
     low |-> {"low", "Low", "LOW"},
     volume |-> {"volume", "Volume", "VOLUME", "vol"}]

\* lines 32-42: every required column is found under one of its names
ColumnsFound(columns) ==
    \A standard_name \in DOMAIN required_mapping :
        required_mapping[standard_name] \cap columns # {}

\* lines 47-50: the rows left by to_numeric(errors='coerce') and dropna
ValidRows(points) == points.rows - points.bad

EnoughRowsBeforeDropping(points) == points.rows >= min_history_rows

\* lines 52-53: at least 26 rows are left after dropping
EnoughRows(points) == ValidRows(points) >= min_history_rows

\* calculate_technical_indicators: None, or an IndicatorSet
HasIndicators(points, columns) ==
    /\ points.rows > 0
    /\ points.rows >= min_history_rows
    /\ ColumnsFound(columns)
    /\ EnoughRows(points)

\* the points of one answer of the historical feed
ChunkPoints == [rows : {0, 13, 50}, bad : {0, 1}]

FeedColumns ==
    {{"time", "open", "close", "high", "low", "volume"},
     {"time", "Open", "Close", "HIGH", "low", "vol"},
     {"time", "open", "close", "high", "low"},
     {"time", "open", "high", "low", "volume"}}

\* the IndicatorSets the engine hands on (values of the ta library)
AnalysisIndicators ==
    {[macd |-> Some(1), macd_signal |-> Some(0), macd_hist |-> Some(1),
      rsi |-> r, stoch_k |-> Some(1), stoch_d |-> Some(0), adx |-> Some(30),
      close |-> Some(1000), bb_mid |-> b, sma_20 |-> None] :
         r \in {None, Some(50)}, b \in {None, Some(2000)}}
      \cup {[NoIndicators EXCEPT !.close = Some(1000)]}

\* the ATR of the IndicatorSet
AnalysisAtrs == {None, Some(1)}

\* the depth snapshots _calculate_depth_metrics yields
AnalysisDepths ==
    {[bids_vol |-> 150, asks_vol |-> 100, spread |-> 5],
     [bids_vol |-> 0, asks_vol |-> 100, spread |-> 50]}

\* the pages of the recent-trades feed
AnalysisTrades ==
    {<<>>,
     <<[value |-> Num(100), price |-> Num(10), volume |-> Num(2),
        side |-> "BUY"]>>,
     <<[value |-> Absent, price |-> Num(10), volume |-> Absent,
        side |-> "SELL"]>>,
     <<[value |-> Null, price |-> Text, volume |-> Num(2), side |-> "BUY"]>>}

FailedPaths == ExitPaths \ {"success"}

NoFetch == [kind |-> "none", path |-> "none", ret |-> "none"]

NoPoints == [rows |-> 0, bad |-> 0]

EmptyWindow == [form |-> "dict", trades |-> <<>>]

\* fetch_recent_trades, lines 209-224: the sums, products and extrema over
\* raw fields raise TypeError for a null or text volume, for a null or text
\* price once the total volume is positive, and for prices of mixed kinds
FetchTradesRaises(trades) ==
    \/ \E i \in DOMAIN trades : trades[i].volume.k \in {"null", "text"}
    \/ /\ Sum(Volumes(trades)) > 0
       /\ \E i \in DOMAIN trades : trades[i].price.k \in {"null", "text"}
    \/ \E i, j \in DOMAIN trades :
          /\ trades[i].price.k \in {"null", "text"}
          /\ trades[j].price.k # trades[i].price.k

\* x > t/100 for a ratio x, read on whole percents
PercentCeil(r) == (r.num * 100 + r.den - 1) \div r.den

FlowPercent(flow) ==
    [buy_pressure |-> PercentCeil(flow.buy_pressure),
     institutional_ratio |-> PercentCeil(flow.institutional_ratio)]

AnalysisPending ==
    [kind |-> "pending", signal_type |-> "NEUTRAL", strength |-> NoStrength]

\* _create_empty_analysis
EmptyAnalysis ==
    [kind |-> "empty", signal_type |-> "NEUTRAL", strength |-> NoStrength]

\* analyze_stock, lines 29-31: any exception gives None
AnalysisNone ==
    [kind |-> "None", signal_type |-> "NEUTRAL", strength |-> NoStrength]

\* _analyze_stock left by an exception of a fetch
AnalysisRaised ==
    [kind |-> "raised", signal_type |-> "NEUTRAL", strength |-> NoStrength]

AnalyzeParked ==
    /\ an_pc = "parked"
    /\ feed_columns = {}
    /\ all_points = NoPoints
    /\ chunks = 0
    /\ last_fetch = NoFetch
    /\ analysis = AnalysisPending

AnalyzeStart ==
    /\ an_pc = "history"
    /\ feed_columns \in FeedColumns
    /\ all_points = NoPoints
    /\ chunks = 0
    /\ last_fetch = NoFetch
    /\ analysis = AnalysisPending

\* fetch_historical_data: one pass of the loop of lines 167-180
FetchHistoryChunk(path, points) ==
    /\ an_pc = "history"
    /\ chunks < max_history_chunks
    /\ all_points.rows < enough_points
    /\ points.bad <= points.rows
    /\ last_fetch' = [kind |-> "history", path |-> path,
                      ret |-> FetchJsonReturn(path)]
    /\ IF FetchJsonReturn(path) = "json" /\ points.rows > 0
       THEN /\ all_points' = [rows |-> points.rows + all_points.rows,
                              bad |-> points.bad + all_points.bad]
            /\ chunks' = chunks + 1
            /\ an_pc' = IF \/ chunks + 1 >= max_history_chunks
                           \/ points.rows + all_points.rows >= enough_points
                        THEN "depth" ELSE "history"
       ELSE /\ all_points' = all_points
            /\ chunks' = chunks + 1
            /\ an_pc' = "depth"
    /\ UNCHANGED <<feed_columns, analysis>>
    /\ UNCHANGED <<scoreVars, flowVars>>
    /\ UNCHANGED notAnalyze

\* fetch_market_depth
FetchDepth(path, depth) ==
    /\ an_pc = "depth"
    /\ last_fetch' = [kind |-> "depth", path |-> path,
                      ret |-> FetchJsonReturn(path)]
    /\ market_depth' = IF FetchJsonReturn(path) = "json" THEN depth ELSE NoDepth
    /\ an_pc' = "trades"
    /\ UNCHANGED <<feed_columns, all_points, chunks, analysis>>
    /\ UNCHANGED <<stage, technical, trade_flow, cfg_min, scores, signal_type,
                   signal_strength>>
    /\ UNCHANGED flowVars
    /\ UNCHANGED notAnalyze

\* fetch_recent_trades; an exception of it leaves _analyze_stock
FetchTrades(path, trades) ==
    /\ an_pc = "trades"
    /\ last_fetch' = [kind |-> "trades", path |-> path,
                      ret |-> FetchJsonReturn(path)]
    /\ IF FetchJsonReturn(path) = "json" /\ trades # <<>>
       THEN IF FetchTradesRaises(trades)
            THEN /\ trades_data' = trades_data
                 /\ analysis' = AnalysisRaised
                 /\ an_pc' = "done"
            ELSE /\ trades_data' = [form |-> "dict", trades |-> trades]
                 /\ analysis' = analysis
                 /\ an_pc' = "analyze"
       ELSE /\ trades_data' = EmptyWindow
            /\ analysis' = analysis
            /\ an_pc' = "analyze"
    /\ UNCHANGED <<feed_columns, all_points, chunks>>
    /\ UNCHANGED <<inst_threshold, flow_out>>
    /\ UNCHANGED scoreVars
    /\ UNCHANGED notAnalyze

\* SignalGenerator.analyze_stock on the fetched history, depth and trades
AnalyzeStock(indicators, atr) ==
    /\ an_pc = "analyze"
    /\ an_pc' = "done"
    /\ LET flow == AnalyzeTradeFlow(trades_data, inst_threshold)
           sc == CalculateComponentScores(indicators, FlowPercent(flow),
                                          market_depth)
           \* the instrument analysed trades at a positive price
           risk == [price |-> 10, atr |-> atr,
                    bb_mid |-> indicators.bb_mid]
       IN  IF ~HasIndicators(all_points, feed_columns)
           THEN /\ analysis' = EmptyAnalysis
                /\ UNCHANGED <<flow_out, stage, technical, trade_flow, scores,
                               signal_type, signal_strength>>
           ELSE IF flow.status # "ok"
           THEN /\ analysis' = AnalysisNone
                /\ flow_out' = flow
                /\ technical' = indicators
                /\ UNCHANGED <<stage, trade_flow, scores, signal_type,
                               signal_strength>>
           ELSE /\ flow_out' = flow
                /\ technical' = indicators
                /\ trade_flow' = FlowPercent(flow)
                /\ scores' = sc
                /\ signal_type' = DetermineSignalType(sc, cfg_min)
                /\ signal_strength' = CalculateSignalStrength(sc)
                /\ stage' = "typed"
                /\ analysis' =
                      IF RiskRaises(risk) THEN AnalysisNone
                      ELSE [kind |-> "signal",
                            signal_type |-> DetermineSignalType(sc, cfg_min),
                            strength |-> CalculateSignalStrength(sc)]
    /\ UNCHANGED <<feed_columns, all_points, chunks, last_fetch>>
    /\ UNCHANGED <<trades_data, inst_threshold, market_depth, cfg_min>>
    /\ UNCHANGED notAnalyze

NextAnalyze ==
    \/ \E path \in ExitPaths, points \in ChunkPoints :
           FetchHistoryChunk(path, points)
    \/ \E path \in ExitPaths, depth \in AnalysisDepths : FetchDepth(path, depth)
    \/ \E path \in ExitPaths, trades \in AnalysisTrades :
           FetchTrades(path, trades)
    \/ \E indicators \in AnalysisIndicators, atr \in AnalysisAtrs :
           AnalyzeStock(indicators, atr)

(***************************************************************************)
(*   One SignalGenerator scoring one instrument after another.  The only   *)
(*   field _generate_signal writes is stock_symbol_for_logging (line 35);  *)
(*   the thresholds and minimums are read from the configuration.          *)
(***************************************************************************)
MaxRuns == 3

\* the inputs of _generate_signal: IndicatorSet, trade flow, DepthSnapshot
RescoreInputs ==
    [technical : AnalysisIndicators,
     trade_flow : {NoFlow, [buy_pressure |-> 70, institutional_ratio |-> 65]},
     market_depth : AnalysisDepths \cup {NoDepth}]

GenerateSignalBySymbol(logged_symbol, inputs) ==
    LET sc == IF logged_symbol = "B" THEN NoScores
              ELSE CalculateComponentScores(inputs.technical, inputs.trade_flow,
                                            inputs.market_depth)
    IN  [scores |-> sc,
         signal_type |-> DetermineSignalType(sc, DefaultMinimums),
         strength |-> CalculateSignalStrength(sc)]

\* _generate_signal, lines 37-39, on a generator whose
\* stock_symbol_for_logging holds logged_symbol: the symbol is read by the
\* debug print of line 154 only
GenerateSignal(logged_symbol, inputs) ==
    LET sc == CalculateComponentScores(inputs.technical, inputs.trade_flow,
                                       inputs.market_depth)
    IN  [scores |-> sc,
         signal_type |-> DetermineSignalType(sc, DefaultMinimums),
         strength |-> CalculateSignalStrength(sc)]

RescoreParked ==
    /\ gen_symbol = NoSymbol
    /\ probe = [technical |-> NoIndicators, trade_flow |-> NoFlow,
                market_depth |-> NoDepth]
    /\ memo = None
    /\ last_scored = None
    /\ probe_runs = 0
    /\ between = FALSE

RescoreStart ==
    /\ gen_symbol = NoSymbol
    /\ probe \in RescoreInputs
    /\ memo = None
    /\ last_scored = None
    /\ probe_runs = 0
    /\ between = FALSE

\* _generate_signal for the instrument sym on the given inputs
ScoreInstrument(sym, inputs) ==
    /\ inputs = probe => probe_runs < MaxRuns
    /\ gen_symbol' = sym
    /\ LET result == GenerateSignal(sym, inputs)
       IN  /\ last_scored' = Some([symbol |-> sym, inputs |-> inputs,
                                   result |-> result])
           /\ memo' = IF inputs = probe /\ memo = None
                      THEN Some(result) ELSE memo
    /\ probe_runs' = IF inputs = probe THEN probe_runs + 1 ELSE probe_runs
    /\ between' = IF inputs # probe /\ probe_runs >= 1 THEN TRUE ELSE between
    /\ UNCHANGED probe
    /\ UNCHANGED notRescore

NextRescore ==
    \E sym \in Symbols, inputs \in RescoreInputs : ScoreInstrument(sym, inputs)

(***************************************************************************)
(*          MarketDataService.fetch_market_data and its cache              *)
(*                                                                         *)
(* A listing of the live feed is the asset_id it carries, or NoAsset; a     *)
(* static record is the market cap the detail feed gave and, as a ghost,   *)
(* the day it was fetched on.  A call reads the date once (line 39); the   *)
(* calendar day may change while the call awaits its requests.             *)
(***************************************************************************)
MaxListed == 2
Assets == {"x", "y"}
\* stock.get('asset_id') of a listing the feed gives no identifier for
NoAsset == ""

\* how _fetch_stock_details can end: a record with a market cap at or above
\* the configured minimum, one below it, None (fetch_json returned None) or
\* an exception (a feed of null: data.get('feed', {}).get(...))
DetailOutcomes == {"ok", "small", "none", "raise"}

RECURSIVE SeqsUpTo(_, _)
SeqsUpTo(S, n) ==
    IF n = 0 THEN {<<>>}
    ELSE LET shorter == SeqsUpTo(S, n - 1)
         IN  shorter \cup {Append(q, e) : q \in shorter, e \in S}

\* the pre-filtered listings of one call; a listing without asset_id is
\* skipped wherever it stands (lines 79-81) and is put first
Listings ==
    SeqsUpTo(Assets, MaxListed)
        \cup {<<NoAsset>> \o q : q \in SeqsUpTo(Assets, MaxListed - 1)}

EmptyCache == [a \in Assets |-> None]

CacheNeverStale(last, day) == FALSE

\* line 41: self.last_cache_date != today
CacheIsStale(last, day) == last # Some(day)

\* lines 41-44
CacheAtLookup(cache, last, day) ==
    IF CacheIsStale(last, day) THEN EmptyCache ELSE cache

RECURSIVE TasksOfEveryMiss(_, _, _)
TasksOfEveryMiss(listed, cache, scheduled) ==
    IF listed = <<>> THEN <<>>
    ELSE LET a == Head(listed)
             miss == a # NoAsset /\ cache[a] = None
         IN  IF miss
             THEN <<a>> \o TasksOfEveryMiss(Tail(listed), cache, scheduled)
             ELSE TasksOfEveryMiss(Tail(listed), cache, scheduled)

\* lines 78-93: the asset_ids _fetch_stock_details is scheduled for, in order:
\* listings with an asset_id that is not in the cache and not yet in
\* stocks_to_enhance_map
RECURSIVE TasksToRun(_, _, _)
TasksToRun(listed, cache, scheduled) ==
    IF listed = <<>> THEN <<>>
    ELSE LET a == Head(listed)
             miss == a # NoAsset /\ cache[a] = None /\ a \notin scheduled
         IN  IF miss
             THEN <<a>> \o TasksToRun(Tail(listed), cache, scheduled \cup {a})
             ELSE TasksToRun(Tail(listed), cache, scheduled)

\* lines 83-87: the listings merged with their cached record, in order
RECURSIVE MergedFromCache(_, _)
MergedFromCache(listed, cache) ==
    IF listed = <<>> THEN <<>>
    ELSE LET a == Head(listed)
             rest == MergedFromCache(Tail(listed), cache)
         IN  IF a # NoAsset /\ cache[a] # None
             THEN <<[asset |-> a, cap |-> cache[a][1].cap,
                     day |-> cache[a][1].day, from |-> "cache"]>> \o rest
             ELSE rest

\* line 99: isinstance(result, dict) and 'asset_id' in result
DetailUsable(outcome) == outcome \in {"ok", "small"}

\* the static record a usable result is cached as
StaticRecord(outcome, day) ==
    Some([cap |-> IF outcome = "ok" THEN "big" ELSE "small", day |-> day])

\* lines 98-109: the cache after the results of the gathered tasks
CacheAfter(cache, tasks, outcomes, day) ==
    [a \in Assets |->
        IF (\E i \in 1..Len(tasks) : tasks[i] = a) /\ DetailUsable(outcomes[a])
        THEN StaticRecord(outcomes[a], day)
        ELSE cache[a]]

RECURSIVE MergedFromEveryResult(_, _, _)
MergedFromEveryResult(tasks, outcomes, day) ==
    IF tasks = <<>> THEN <<>>
    ELSE <<[asset |-> Head(tasks),
            cap |-> IF outcomes[Head(tasks)] = "small" THEN "small" ELSE "big",
            day |-> day, from |-> "detail"]>>
             \o MergedFromEveryResult(Tail(tasks), outcomes, day)

\* lines 98-107: the listings merged with a result of this call, in order
RECURSIVE MergedFromResults(_, _, _)
MergedFromResults(tasks, outcomes, day) ==
    IF tasks = <<>> THEN <<>>
    ELSE LET a == Head(tasks)
             rest == MergedFromResults(Tail(tasks), outcomes, day)
         IN  IF DetailUsable(outcomes[a])
             THEN <<[asset |-> a,
                     cap |-> StaticRecord(outcomes[a], day)[1].cap,
                     day |-> day, from |-> "detail"]>> \o rest
             ELSE rest

\* _meets_final_criteria on a merged record
MeetsFinalCriteria(rec) == rec.cap = "big"

RECURSIVE FinalStocks(_)
FinalStocks(enhanced) ==
    IF enhanced = <<>> THEN <<>>
    ELSE IF MeetsFinalCriteria(Head(enhanced))
         THEN <<Head(enhanced)>> \o FinalStocks(Tail(enhanced))
         ELSE FinalStocks(Tail(enhanced))

Count(q, a) == Cardinality({i \in 1..Len(q) : q[i] = a})

NoCall ==
    [op |-> "none", date |-> 0, live |-> "none", listed |-> <<>>,
     last_before |-> None, held |-> {}, ok_today |-> {},
     removed |-> {}, cached |-> {},
     requested |-> [a \in Assets |-> 0], failed |-> {},
     universe |-> <<>>, raised |-> FALSE]

UniverseParked ==
    /\ static_stock_data_cache = EmptyCache
    /\ last_cache_date = None
    /\ fetched_ok = [a \in Assets |-> None]
    /\ md_ev = NoCall

\* what the marketwatch request gave: assets, nothing (None or no assets),
\* or assets one of which has a null last_trade_price
LiveOutcomes == {"assets", "none", "null_price"}

\* _meets_preliminary_criteria, line 119: min_price <= None raises TypeError,
\* which nothing in fetch_market_data catches
PreFilterRaises(live) == live = "null_price"

\* One call of fetch_market_data.  live: what the marketwatch request gave;
\* listed: the listings left by the pre-filter; outcomes: how the detail
\* request of each asset ends; rolled: midnight passes while the detail
\* requests are awaited (a success of such a call belongs to no single day).
FetchMarketData(live, listed, outcomes, rolled) ==
    /\ rolled => today < MaxDay
    /\ live # "assets" => listed = <<>>
    /\ \E date \in {today}, fetch_day \in {IF rolled THEN today + 1 ELSE today} :
       \E lookup \in {CacheAtLookup(static_stock_data_cache, last_cache_date,
                                    date)} :
       \E tasks \in {TasksToRun(listed, lookup, {})} :
       \E requested \in {[a \in Assets |-> Count(tasks, a)]} :
          /\ \A a \in Assets : requested[a] = 0 => outcomes[a] = "ok"
          /\ rolled => tasks # <<>>
          /\ today' = fetch_day
          /\ last_cache_date' = Some(date)
          /\ static_stock_data_cache' =
                CacheAfter(lookup, tasks, outcomes, fetch_day)
          /\ fetched_ok' =
                [a \in Assets |->
                   IF requested[a] > 0 /\ outcomes[a] \in {"ok", "small"}
                   THEN IF fetch_day = date THEN Some(date) ELSE None
                   ELSE fetched_ok[a]]
          /\ md_ev' =
                [op |-> "fetch", date |-> date, live |-> live,
                 listed |-> listed,
                 last_before |-> last_cache_date,
                 held |-> {a \in Assets : static_stock_data_cache[a] # None},
                 ok_today |-> {a \in Assets : fetched_ok[a] = Some(date)},
                 removed |-> {a \in Assets : static_stock_data_cache[a] # None
                                             /\ lookup[a] = None},
                 cached |-> {a \in Assets : lookup[a] # None},
                 requested |-> requested,
                 failed |-> {a \in Assets : requested[a] > 0
                                   /\ outcomes[a] \in {"none", "raise"}},
                 universe |-> FinalStocks(
                     MergedFromCache(listed, lookup)
                         \o MergedFromResults(tasks, outcomes, fetch_day)),
                 raised |-> PreFilterRaises(live)]
    /\ UNCHANGED notUniverse

\* how the detail requests of a call end: one outcome for each asset that
\* can be requested
OutcomesOf(live, listed) ==
    {o \in [Assets -> DetailOutcomes] :
        \A a \in Assets \ {listed[i] : i \in 1..Len(listed)} : o[a] = "ok"}

NextUniverse ==
    \/ \E live \in LiveOutcomes :
          \E listed \in IF live = "assets" THEN Listings ELSE {<<>>} :
             \E outcomes \in OutcomesOf(live, listed), rolled \in BOOLEAN :
                FetchMarketData(live, listed, outcomes, rolled)
    \/ Midnight

(***************************************************************************)
(*                            TradingApp.run                               *)
(***************************************************************************)
MaxUniverse == 2

RECURSIVE UniversesUpTo(_)
UniversesUpTo(n) ==
    IF n = 0 THEN {<<>>}
    ELSE LET shorter == UniversesUpTo(n - 1)
         IN  shorter \cup {Append(q, sym) : q \in shorter, sym \in Symbols}

\* what fetch_market_data can return to _process_market_cycle
Universes == UniversesUpTo(MaxUniverse)

\* the signals analyze_stock hands to the loop in these runs: a weak one
\* (8/11) and a strong one (10/11) per symbol, with and without an RSI
RunSignals ==
    {sig \in Signals : sig.symbol \in Symbols /\ sig.strength.num \in {8, 10}}

\* how send_alert can end in the handler of run(): every subscriber was
\* served, send_message failed (it returns False), or the subscriber query
\* of broadcast_message (line 33) raised
AlertOutcomes == {"sent", "send_failed", "query_raises"}

\* send_message catches every exception (lines 23-29); broadcast_message
\* and send_alert catch none
SendAlertRaises(outcome) == outcome = "query_raises"

RunParked ==
    /\ run_pc = "parked"
    /\ queue = <<>>
    /\ handled = <<>>

RunStart ==
    /\ run_pc = "updates"
    /\ queue = <<>>
    /\ handled = <<>>

\* line 45: process_updates catches what it raises (lines 64-71)
ProcessUpdates ==
    /\ run_pc = "updates"
    /\ run_pc' = "fetch"
    /\ UNCHANGED <<queue, handled>>
    /\ UNCHANGED cycleVars
    /\ UNCHANGED notRun

\* lines 55-59: fetch_market_data returns the universe of the cycle
FetchUniverse(stocks) ==
    /\ run_pc = "fetch"
    /\ run_pc' = "loop"
    /\ queue' = stocks
    /\ handled' = <<>>
    /\ UNCHANGED cycleVars
    /\ UNCHANGED notRun

\* lines 55-59: fetch_market_data raises (PreFilterRaises); the exception
\* leaves _process_market_cycle and is caught at line 49
FetchRaises ==
    /\ run_pc = "fetch"
    /\ PreFilterRaises("null_price")
    /\ run_pc' = "alert"
    /\ UNCHANGED <<queue, handled>>
    /\ UNCHANGED cycleVars
    /\ UNCHANGED notRun

\* lines 61-78: the pass of the loop for the next stock, on a signal
RunStock(sig) ==
    /\ run_pc = "loop"
    /\ Len(handled) < Len(queue)
    /\ sig.symbol = queue[Len(handled) + 1]
    /\ StockPass(sig)
    /\ handled' = Append(handled, ev')
    /\ UNCHANGED <<run_pc, queue>>
    /\ UNCHANGED notRun

\* lines 61-78: the pass of the loop in which _analyze_stock raises or
\* returns None
RunFails(outcome) ==
    /\ run_pc = "loop"
    /\ Len(handled) < Len(queue)
    /\ FailPass(queue[Len(handled) + 1], outcome)
    /\ handled' = Append(handled, ev')
    /\ UNCHANGED <<run_pc, queue>>
    /\ UNCHANGED notRun

\* line 47: the loop over the stocks is over; sleep the scan interval
ScanSleep ==
    /\ run_pc = "loop"
    /\ Len(handled) = Len(queue)
    /\ run_pc' = "updates"
    /\ UNCHANGED <<queue, handled>>
    /\ UNCHANGED cycleVars
    /\ UNCHANGED notRun

\* lines 49-51: the handler logs and awaits send_alert; an exception raised
\* there is raised inside the except clause and leaves run()
SendErrorAlert(outcome) ==
    /\ run_pc = "alert"
    /\ run_pc' = IF SendAlertRaises(outcome) THEN "exited" ELSE "backoff"
    /\ UNCHANGED <<queue, handled>>
    /\ UNCHANGED cycleVars
    /\ UNCHANGED notRun

\* line 52: asyncio.sleep(60), then the next turn of while True
Backoff ==
    /\ run_pc = "backoff"
    /\ run_pc' = "updates"
    /\ UNCHANGED <<queue, handled>>
    /\ UNCHANGED cycleVars
    /\ UNCHANGED notRun

NextRun ==
    \/ ProcessUpdates
    \/ \E stocks \in Universes : FetchUniverse(stocks)
    \/ FetchRaises
    \/ \E sig \in RunSignals : RunStock(sig)
    \/ \E outcome \in {"raise", "none"} : RunFails(outcome)
    \/ ScanSleep
    \/ \E outcome \in AlertOutcomes : SendErrorAlert(outcome)
    \/ Backoff

(***************************************************************************)
(*   calculate_technical_indicators on a frame that passed the column and  *)
(*   row checks: one try block per computation, the dictionary of the      *)
(*   results, the clean-up of the values.  A computation either raises or  *)
(*   gives a finite number.                                                *)
(***************************************************************************)
MaxFailures == 2

\* len(df) >= 50
sma_50_rows == 50

\* the keys assigned inside try blocks, lines 66-155
ComputedKeys ==
    {"rsi", "rsi_fast", "stoch_k", "stoch_d", "macd", "macd_signal",
     "macd_hist", "adx", "bb_upper", "bb_lower", "bb_mid", "atr", "mfi",
     "vwap", "sma_20", "sma_50", "ema_12", "ema_26"}

\* lines 158-161: the latest close, high, low and volume
PassThroughKeys == {"close", "high", "low", "volume"}

\* the keys assigned in the same try block as key
TryBlockOf(key) ==
    IF key \in {"sma_20", "sma_50"} THEN {"sma_20", "sma_50"}
    ELSE IF key \in {"ema_12", "ema_26"} THEN {"ema_12", "ema_26"}
    ELSE {key}

\* the computation of key is reached and evaluated: sma_50 is computed only
\* on 50 rows or more, and the second assignment of a block only when the
\* first did not raise
Evaluated(key, rows, fails) ==
    IF key = "sma_50" THEN rows >= sma_50_rows /\ "sma_20" \notin fails
    ELSE IF key = "ema_26" THEN "ema_12" \notin fails
    ELSE TRUE

\* the except clause of the block of key is entered
BlockRaises(key, rows, fails) ==
    \E k \in TryBlockOf(key) : k \in fails /\ Evaluated(k, rows, fails)

\* calculate_technical_indicators, lines 62-171
CalculateTechnicalIndicators(rows, fails) ==
    [key \in ComputedKeys \cup PassThroughKeys |->
        IF key \in PassThroughKeys THEN Some(1)
        ELSE IF BlockRaises(key, rows, fails) THEN None
        ELSE IF key = "sma_50" /\ rows < sma_50_rows THEN None
        ELSE Some(1)]

IndicatorInputs ==
    [rows : {min_history_rows, sma_50_rows},
     fails : SubsetsUpTo(ComputedKeys, MaxFailures)]

IndicatorsPending == [key \in ComputedKeys \cup PassThroughKeys |-> Some(0)]

IndParked ==
    /\ ind_in = [rows |-> 0, fails |-> {}]
    /\ ind_out = [status |-> "parked", indicators |-> IndicatorsPending]

IndStart ==
    /\ ind_in \in IndicatorInputs
    /\ ind_out = [status |-> "pending", indicators |-> IndicatorsPending]

ComputeIndicators ==
    /\ ind_out.status = "pending"
    /\ ind_out' = [status |-> "ok",
                   indicators |->
                       CalculateTechnicalIndicators(ind_in.rows, ind_in.fails)]
    /\ UNCHANGED ind_in
    /\ UNCHANGED notInd

NextIndicators == ComputeIndicators

(***************************************************************************)
(*                           Specifications                                *)
(***************************************************************************)
OuterParked ==
    /\ FlowParked /\ AnalyzeParked /\ RescoreParked /\ UniverseParked
    /\ RunParked /\ IndParked

InitGate == GateStart /\ ScoreParked /\ RiskParked /\ CycleParked /\ OuterParked
SpecGate == InitGate /\ [][NextGate]_vars

\* the gate under the scheduling of the event loop, the fetches being finite
SpecGateLive == InitGate /\ [][NextGateLive]_vars /\ GateFairness

\* the scorer on IndicatorSet / trade flow / depth inputs
InitScore == ScoreStart /\ GateStart /\ RiskParked /\ CycleParked /\ OuterParked
SpecScore == InitScore /\ [][NextScore]_vars

\* the signal-type decision on ComponentScores and configured minimums
InitType == TypeStart /\ GateStart /\ RiskParked /\ CycleParked /\ OuterParked
NextType == DetermineType
SpecType == InitType /\ [][NextType]_vars

\* the risk engine on price, ATR, mid-band, lows and multipliers
InitRisk == RiskStart /\ GateStart /\ ScoreParked /\ CycleParked /\ OuterParked
SpecRisk == InitRisk /\ [][NextRisk]_vars

\* the cycle loop of TradingApp over the days
InitCycle == CycleStart /\ GateStart /\ ScoreParked /\ RiskParked /\ OuterParked
SpecCycle == InitCycle /\ [][NextCycle]_vars

CoreParked ==
    GateStart /\ ScoreParked /\ RiskParked /\ CycleParked /\ IndParked

\* the trade-flow analyser on trade windows of every form
InitFlow ==
    /\ FlowStart
    /\ AnalyzeParked /\ RescoreParked /\ UniverseParked /\ RunParked
    /\ CoreParked
SpecFlow == InitFlow /\ [][NextFlow]_vars

\* one instrument through _analyze_stock, with and without a configured
\* institutional threshold
InitAnalyze ==
    /\ AnalyzeStart
    /\ trades_data = EmptyWindow
    /\ inst_threshold \in InstitutionalThresholds
    /\ flow_out = FlowPending
    /\ RescoreParked /\ UniverseParked /\ RunParked
    /\ CoreParked
SpecAnalyze == InitAnalyze /\ [][NextAnalyze]_vars

\* the strategy configurations of the degraded runs: the defaults, and no
\* technical minimum with a flow and a depth minimum of 0 or 1
DegradedMinimums ==
    {DefaultMinimums} \cup [tech : {0}, flow : {0, 1}, depth : {0, 1}]

\* one instrument through _analyze_stock under each of these configurations
InitDegraded ==
    /\ AnalyzeStart
    /\ trades_data = EmptyWindow
    /\ inst_threshold = Some(50)
    /\ flow_out = FlowPending
    /\ stage = "parked"
    /\ technical = NoIndicators
    /\ trade_flow = NoFlow
    /\ market_depth = NoDepth
    /\ cfg_min \in DegradedMinimums
    /\ scores = NoScores
    /\ signal_type = "NEUTRAL"
    /\ signal_strength = NoStrength
    /\ GateStart /\ RiskParked /\ CycleParked /\ IndParked
    /\ RescoreParked /\ UniverseParked /\ RunParked
SpecDegraded == InitDegraded /\ [][NextAnalyze]_vars

\* one generator scoring instrument after instrument
InitRescore ==
    /\ RescoreStart
    /\ FlowParked /\ AnalyzeParked /\ UniverseParked /\ RunParked
    /\ CoreParked
SpecRescore == InitRescore /\ [][NextRescore]_vars

\* fetch_market_data called cycle after cycle, over the days
InitUniverse ==
    /\ UniverseParked
    /\ FlowParked /\ AnalyzeParked /\ RescoreParked /\ RunParked
    /\ CoreParked
SpecUniverse == InitUniverse /\ [][NextUniverse]_vars

\* TradingApp.run from its first turn
InitRun ==
    /\ RunStart
    /\ FlowParked /\ AnalyzeParked /\ RescoreParked /\ UniverseParked
    /\ CoreParked
SpecRun == InitRun /\ [][NextRun]_vars

\* the trade-flow analyser on windows around ten trades
InitSurge ==
    /\ SurgeStart
    /\ AnalyzeParked /\ RescoreParked /\ UniverseParked /\ RunParked
    /\ CoreParked
SpecSurge == InitSurge /\ [][NextFlow]_vars

\* calculate_technical_indicators on frames of 26 and of 50 rows
InitIndicators ==
    /\ IndStart
    /\ GateStart /\ ScoreParked /\ RiskParked /\ CycleParked
    /\ FlowParked /\ AnalyzeParked /\ RescoreParked /\ UniverseParked
    /\ RunParked
SpecIndicators == InitIndicators /\ [][NextIndicators]_vars

(***************************************************************************)
(*                               Claims                                    *)
(***************************************************************************)

Holders == {t \in Tasks : pc[t] = "holding"}
SlotOwners == {t \in Tasks : pc[t] \in {"sleeping", "holding"}}

\* C1: the number of callers that returned from acquire() and have not yet
\* called release() never exceeds max_concurrent.
C1_HoldersBounded == Cardinality(Holders) <= MaxConcurrent

C1_Witness ==
    /\ Cardinality(Holders) = MaxConcurrent
    /\ \E t \in Tasks : pc[t] = "waiting"

\* C2: within any 60-second interval at most requests_per_minute calls of
\* acquire() return: the grants of the trailing window never number more than R.
C2_RateBounded == Len(grants) <= RequestsPerMinute

\* C3: every fetch_json call gives back the slot it took, whatever way the
\* wrapped request ends: the slots taken are exactly those of the calls still
\* inside the gate, so a call that has ended holds none.
C3_SlotReleasedOnEveryPath == MaxConcurrent - sem = Cardinality(SlotOwners)

C3_Witness ==
    /\ last_exit.path \in {"ClientError", "TimeoutError", "Exception"}
    /\ last_exit.ret = "None"
    /\ \A t \in Tasks : pc[t] = "idle"
    /\ sem = MaxConcurrent


AllMinimumsMet ==
    /\ scores.technical >= cfg_min.tech
    /\ scores.trade_flow >= cfg_min.flow
    /\ scores.market_depth >= cfg_min.depth

\* C5: _determine_signal_type returns NEUTRAL whenever a sub-score is below
\* its configured minimum, and BUY or STRONG_BUY only when all three
\* sub-scores meet their minimums.
C5_NeutralBelowMinimum ==
    stage = "typed" =>
        /\ signal_type \in {"NEUTRAL", "BUY", "STRONG_BUY"}
        /\ (\/ scores.technical < cfg_min.tech
            \/ scores.trade_flow < cfg_min.flow
            \/ scores.market_depth < cfg_min.depth) => signal_type = "NEUTRAL"
        /\ signal_type \in {"BUY", "STRONG_BUY"} => AllMinimumsMet

C5_Witness ==
    /\ stage = "typed"
    /\ scores.technical >= cfg_min.tech
    /\ scores.trade_flow >= cfg_min.flow
    /\ scores.market_depth < cfg_min.depth
    /\ scores.technical + scores.trade_flow + scores.market_depth
         > cfg_min.tech + cfg_min.flow + cfg_min.depth
    /\ signal_type = "NEUTRAL"

\* C6: when all three sub-scores meet their minimums the type is STRONG_BUY
\* exactly when the three sub-scores sum to at least
\* min_tech + min_flow + min_depth + 1, and BUY otherwise.
C6_StrongBuyMargin ==
    (stage = "typed" /\ AllMinimumsMet) =>
        IF scores.technical + scores.trade_flow + scores.market_depth
             >= cfg_min.tech + cfg_min.flow + cfg_min.depth + 1
        THEN signal_type = "STRONG_BUY"
        ELSE signal_type = "BUY"

C6_Witness ==
    /\ stage = "typed"
    /\ AllMinimumsMet
    /\ scores.technical + scores.trade_flow + scores.market_depth
         = cfg_min.tech + cfg_min.flow + cfg_min.depth
    /\ cfg_min.tech > 0
    /\ signal_type = "BUY"

C8_StopBelowEntryBelowTarget ==
    (/\ risk_out.status = "ok"
     /\ risk_in.atr[1] > 0
     /\ risk_in.price > 0) =>
        /\ risk_out.stop_loss < risk_out.adjusted_buy_price
        /\ risk_out.adjusted_buy_price < risk_out.take_profit

\* the pass just taken handled a signal that is not NEUTRAL and whose
\* strength is at least min_signal_strength
QualifiedPass ==
    /\ ev'.outcome = "signal"
    /\ ev'.signal_type # "NEUTRAL"
    /\ ev'.num * 100 >= min_signal_strength * max_possible_score

\* C4: a signal is stored or alerted only if its type is not NEUTRAL and its
\* strength is at least min_signal_strength; every other outcome of the
\* analysis leaves the signal log, the alert channel and the throttle memory
\* unchanged.
C4_OnlyQualifyingEmitted ==
    [][ev'.op = "process" =>
          /\ (\/ ev'.stored \/ ev'.alerted
              \/ signal_log' # signal_log
              \/ last_alert' # last_alert) => QualifiedPass
          /\ ~QualifiedPass =>
                /\ ~ev'.stored /\ ~ev'.alerted
                /\ UNCHANGED <<signal_log, last_alert, sent_signals_today,
                               current_date>>]_vars

C4_Witness ==
    /\ ev.op = "process"
    /\ ev.outcome = "signal"
    /\ ev.signal_type = "BUY"
    /\ ev.num = 8
    /\ min_signal_strength = 75
    /\ ~ev.emitted
    /\ sent_signals_today["A"] # None
    /\ today # current_date

\* the throttle memory a pass compares against: empty on a new day
MemoryToday == IF today # current_date THEN NoMemory ELSE sent_signals_today

\* C9: for each instrument an alert is sent for a new signal if and only if
\* the throttle memory holds no entry for it today, or the remembered type
\* differs, or the strengths differ by more than 0.05; and two consecutive
\* alerts for an instrument on one day differ in type or by more than 0.05
\* in strength.
C9_AlertIffDifferent ==
    [][(ev'.op = "process" /\ ev'.emitted /\ ev'.symbol \in Symbols) =>
          LET last == MemoryToday[ev'.symbol]
              before == last_alert[ev'.symbol]
          IN  /\ ev'.alerted <=>
                    \/ last = None
                    \/ last[1].signal_type # ev'.signal_type
                    \/ AbsDiff(last[1].strength.num, ev'.num) * 100
                         > 5 * max_possible_score
              /\ (ev'.alerted /\ before # None /\ before[1].day = today) =>
                    \/ before[1].signal_type # ev'.signal_type
                    \/ AbsDiff(before[1].strength.num, ev'.num) * 100
                         > 5 * max_possible_score]_vars

\* C10: the first emission pass of a new calendar day clears the whole
\* throttle memory before comparing, the memory is cleared at no other time,
\* and so a signal with the type and strength alerted the day before is
\* alerted again.
C10_ClearedOnNewDayOnly ==
    [][/\ (ev'.op = "process" /\ ev'.emitted /\ today # current_date) =>
             /\ \A s \in Symbols \ {ev'.symbol} : sent_signals_today'[s] = None
             /\ current_date' = today
             /\ \A s \in Symbols :
                   (/\ ev'.symbol = s
                    /\ last_alert[s] # None
                    /\ last_alert[s][1].day < today
                    /\ last_alert[s][1].signal_type = ev'.signal_type
                    /\ last_alert[s][1].strength.num = ev'.num) => ev'.alerted
       /\ (\E s \in Symbols : /\ sent_signals_today[s] # None
                              /\ sent_signals_today'[s] = None) =>
             (ev'.op = "process" /\ ev'.emitted /\ today # current_date)]_vars

\* C12: for an empty trade window in any accepted form (None, empty list,
\* a dict with no or empty 'trades', a value that is neither list nor dict)
\* analyze_trade_flow returns exactly buy_pressure 0, sell_pressure 0,
\* institutional_ratio 0, price_impact 0, all five pattern flags false and
\* total_trades 0.
C12_EmptyWindowZeroed ==
    (/\ flow_out.status # "pending"
     /\ \/ trades_data.form \in {"none", "dict_no_trades", "other"}
        \/ trades_data.trades = <<>>) =>
        /\ flow_out.status = "ok"
        /\ flow_out.buy_pressure.num = 0
        /\ flow_out.sell_pressure.num = 0
        /\ flow_out.institutional_ratio.num = 0
        /\ flow_out.price_impact.num = 0
        /\ \A flag \in DOMAIN flow_out.trade_patterns :
              flow_out.trade_patterns[flag] = FALSE
        /\ DOMAIN flow_out.trade_patterns =
              {"institutional_buying", "institutional_selling",
               "retail_accumulation", "retail_distribution", "volume_surge"}
        /\ flow_out.total_trades = 0

C12_Witness ==
    /\ flow_out.status = "ok"
    /\ trades_data.form = "other"
    /\ Len(trades_data.trades) = MaxTrades
    /\ inst_threshold # None
    /\ flow_out.total_trades = 0

\* C13: for every non-empty window of trade records, whatever fields of a
\* record are absent, null or non-numeric and whether or not the
\* institutional threshold is configured, analyze_trade_flow returns a
\* result and raises no error.
C13_NeverRaises ==
    (/\ flow_out.status # "pending"
     /\ trades_data.form \in {"list", "dict"}
     /\ trades_data.trades # <<>>) => flow_out.status = "ok"

\* C11: for every price series with fewer than 26 rows left valid by the
\* numeric coercion of close, high, low and volume, and for every series
\* missing one of these columns, calculate_technical_indicators returns None
\* and the analysis of the instrument is the empty NEUTRAL signal of
\* strength 0.
C11_ShortSeriesNoIndicators ==
    (/\ an_pc = "done"
     /\ analysis.kind # "raised"
     /\ \/ all_points.rows - all_points.bad < 26
        \/ \E column \in {"close", "high", "low", "volume"} :
              required_mapping[column] \cap feed_columns = {}) =>
        /\ analysis.kind = "empty"
        /\ analysis.signal_type = "NEUTRAL"
        /\ analysis.strength.num = 0
        /\ technical = NoIndicators
        /\ stage = "parked"

C11_Witness ==
    /\ an_pc = "done"
    /\ all_points.rows = 26
    /\ all_points.bad = 1
    /\ "vol" \in feed_columns
    /\ analysis.kind = "empty"

\* C20: a failed or timed-out request never raises out of the fetch layer:
\* fetch_json returns None for every exception, the depth fetch then yields
\* the all-zero snapshot, the trades fetch the empty window, the history
\* fetch the points accumulated so far, and _analyze_stock goes on.
C20_FailedFetchDegrades ==
    [][(/\ an_pc \in {"history", "depth", "trades"}
        /\ last_fetch'.path \in {"ClientError", "TimeoutError", "Exception"}) =>
          /\ last_fetch'.ret = "None"
          /\ analysis'.kind # "raised"
          /\ an_pc = "history" =>
                /\ all_points' = all_points
                /\ an_pc' = "depth"
          /\ an_pc = "depth" =>
                /\ market_depth' = [bids_vol |-> 0, asks_vol |-> 0, spread |-> 0]
                /\ an_pc' = "trades"
          /\ an_pc = "trades" =>
                /\ trades_data'.trades = <<>>
                /\ an_pc' = "analyze"]_vars

C20_Witness ==
    /\ an_pc = "done"
    /\ last_fetch.kind = "trades"
    /\ last_fetch.path = "TimeoutError"
    /\ market_depth = NoDepth
    /\ all_points.rows = 13
    /\ chunks = 2
    /\ analysis.kind = "empty"

C17_DayRolloverClearsCache ==
    md_ev.op = "fetch" =>
        /\ md_ev.last_before # Some(md_ev.date) =>
              /\ md_ev.removed = md_ev.held
              /\ md_ev.cached = {}
        /\ md_ev.last_before = Some(md_ev.date) =>
              /\ md_ev.removed = {}
              /\ md_ev.cached = md_ev.held
        /\ \A i \in 1..Len(md_ev.universe) :
              md_ev.universe[i].day >= md_ev.date
        /\ last_cache_date = Some(md_ev.date)

C17_Witness ==
    /\ md_ev.op = "fetch"
    /\ md_ev.date = 1
    /\ md_ev.last_before = Some(0)
    /\ md_ev.held = {"x", "y"}
    /\ md_ev.removed = {"x", "y"}
    /\ md_ev.listed = <<"x", "y">>
    /\ Len(md_ev.universe) = 1
    /\ md_ev.universe[1].asset = "y"

\* C18: within one calendar day the detail feed is requested for an
\* instrument only while the static cache has no record for it: after a
\* detail fetch of the instrument has succeeded in a cycle of that day no
\* later cycle of the day requests it, and one cycle requests an instrument
\* at most once however often it is listed.
C18_DetailFetchedOncePerDay ==
    md_ev.op = "fetch" =>
        \A a \in Assets :
            /\ md_ev.requested[a] <= 1
            /\ md_ev.requested[a] = 1 => a \notin md_ev.cached
            /\ a \in md_ev.ok_today => md_ev.requested[a] = 0

C18_Witness ==
    /\ md_ev.op = "fetch"
    /\ md_ev.date = 1
    /\ md_ev.last_before = Some(1)
    /\ md_ev.ok_today = {"x"}
    /\ md_ev.listed = <<"x", "y">>
    /\ md_ev.cached = {"x"}
    /\ md_ev.requested = [a \in Assets |-> IF a = "y" THEN 1 ELSE 0]

\* C19: when the detail fetch of some pre-filtered instruments fails in a
\* call, exactly those are absent from the universe returned: every listed
\* instrument whose static record is cached or was fetched in the call and
\* passes the final filter is returned, and fetch_market_data does not raise.
C19_FailedDetailDropsInstrument ==
    (md_ev.op = "fetch" /\ md_ev.failed # {}) =>
        /\ ~md_ev.raised
        /\ \A a \in md_ev.failed :
              \A i \in 1..Len(md_ev.universe) : md_ev.universe[i].asset # a
        /\ {md_ev.universe[i].asset : i \in 1..Len(md_ev.universe)} =
              {a \in Assets :
                  /\ \E i \in 1..Len(md_ev.listed) : md_ev.listed[i] = a
                  /\ a \in md_ev.cached \/ md_ev.requested[a] = 1
                  /\ a \notin md_ev.failed
                  /\ static_stock_data_cache[a] # None
                  /\ static_stock_data_cache[a][1].cap = "big"}

C19_Witness ==
    /\ md_ev.op = "fetch"
    /\ md_ev.listed = <<"y", "x">>
    /\ md_ev.cached = {}
    /\ md_ev.failed = {"y"}
    /\ md_ev.requested = [a \in Assets |-> 1]
    /\ Len(md_ev.universe) = 1
    /\ md_ev.universe[1].asset = "x"
    /\ md_ev.universe[1].from = "detail"
    /\ static_stock_data_cache["y"] = None

\* C15: within one cycle an exception raised while analysing or emitting
\* for one instrument is caught for that instrument only: every later
\* instrument of the cycle's universe is still handled and, if it passes
\* the emission threshold, is stored and, when the throttle lets it
\* through, alerted.
C15_FailureIsolatedPerInstrument ==
    /\ run_pc = "updates" => Len(handled) = Len(queue)
    /\ \A i \in 1..Len(handled) : \A j \in 1..Len(handled) :
          (i < j /\ handled[i].raised /\ handled[j].emitted) =>
              /\ handled[j].stored
              /\ handled[j].is_different => handled[j].alerted

\* C16: run() never exits: after an exception at the top of a cycle the
\* error is logged, the alert is sent, the loop waits and starts the next
\* cycle, also when sending that alert fails.
C16_RunNeverExits == run_pc # "exited"

\* C21: the gate never deadlocks: when every holder eventually releases,
\* every caller waiting in acquire() is eventually granted, also when the
\* 60-second window is full while every slot is held.
C21_WaiterEventuallyGranted ==
    \A t \in Tasks : (pc[t] = "waiting") ~> (pc[t] = "holding")

C21_Witness ==
    /\ pc[3] = "waiting"
    /\ sem = 0
    /\ \E t \in Tasks : pc[t] = "sleeping"
    /\ \E t \in Tasks : pc[t] = "holding"
    /\ Len(Prune(request_times, clock)) >= RequestsPerMinute

\* C22: for every signal with ATR > 0 and price > 0 the take-profit keeps
\* the minimum risk-reward ratio against the stop chosen:
\* take_profit - price >= (tp_mult / sl_mult) * (price - stop_loss).
C22_RiskRewardKept ==
    (/\ risk_out.status = "ok"
     /\ risk_in.atr[1] > 0
     /\ risk_in.price > 0) =>
        (risk_out.take_profit - risk_in.price * 200) * risk_in.sl_mult
            >= risk_in.tp_mult * (risk_in.price * 200 - risk_out.stop_loss)

\* C23: whenever ATR > 0, price > 0 and the history holds at least the
\* lookback number of rows, stop_loss is the lower of price - ATR * multiplier
\* and 0.995 times the lowest low of the last lookback rows; the stop of
\* 0.98 * price is used if and only if ATR or price is not positive.
C23_StopIsLowerOfTwo ==
    risk_out.status = "ok" =>
        /\ (/\ risk_in.atr[1] > 0
            /\ risk_in.price > 0
            /\ Len(risk_in.lows) >= structural_stop_lookback) =>
               risk_out.stop_loss =
                   Min({(risk_in.price - risk_in.atr[1] * risk_in.sl_mult) * 200,
                        MinOf(LastRows(risk_in.lows, structural_stop_lookback))
                            * 199})
        /\ (risk_out.stop_loss = risk_in.price * 196)
              <=> (risk_in.atr[1] <= 0 \/ risk_in.price <= 0)

\* C24: in calculate_technical_indicators each indicator is fault-tolerant
\* on its own: when the computation of one indicator fails, that indicator
\* alone is null in the returned IndicatorSet and every other indicator
\* (sma_20 when sma_50 fails, ema_12 when ema_26 fails) keeps its value.
C24_FailureNullsOneIndicator ==
    ind_out.status = "ok" =>
        \A key \in ComputedKeys \cup PassThroughKeys :
            (ind_out.indicators[key] = None) <=>
                \/ key \in ind_in.fails
                \/ key = "sma_50" /\ ind_in.rows < sma_50_rows

\* C25: for every trade window of at least 10 trades the volume_surge flag
\* is true exactly when the summed volume of the 5 most recent trades of the
\* window exceeds 1.5 times the summed volume of the 5 trades before them,
\* whatever mix of institutional and retail trades the window holds; with
\* fewer than 10 trades the flag is false.
C25_SurgeOverWindowOrder ==
    flow_out.status = "ok" =>
        LET window == trades_data.trades
            n == Len(window)
        IN  flow_out.trade_patterns.volume_surge <=>
               /\ n >= surge_min_trades
               /\ 2 * Sum(Volumes(SubSeq(window, n - 4, n)))
                     > 3 * Sum(Volumes(SubSeq(window, n - 9, n - 5)))

\* C26: when writing a signal to the signal log fails, the transaction is
\* rolled back, no exception leaves _store_signal (the alert decision of
\* the pass is still taken), no record of that signal is in the log, and
\* the cycle continues with the next instrument.
C26_FailedWriteIsContained ==
    /\ run_pc = "updates" => Len(handled) = Len(queue)
    /\ \A i \in 1..Len(handled) :
          (handled[i].emitted /\ ConstructorRaises) =>
              /\ ~handled[i].stored
              /\ \A k \in 1..Len(signal_log) :
                    signal_log[k] # [symbol |-> handled[i].symbol,
                                     signal_type |-> handled[i].signal_type,
                                     num |-> handled[i].num]
              /\ handled[i].raised => handled[i].is_different
              /\ (i < Len(queue) /\ Len(handled) = i) => run_pc = "loop"

C26_Witness ==
    /\ Len(handled) = 2
    /\ handled[1].emitted /\ ~handled[1].stored /\ handled[1].alerted
    /\ handled[2].emitted /\ ~handled[2].stored
    /\ handled[2].symbol # handled[1].symbol
    /\ run_pc = "loop"

\* C27: the throttle memory of an instrument changes only by an emission
\* or the daily reset: when a signal's alert is suppressed the remembered
\* type and strength of the instrument stay those of the last alerted
\* signal, when it is alerted they become those of the new signal, and in
\* both cases the entries of all other instruments are unchanged.
C27_MemoryChangesByEmissionOrReset ==
    [][LET reset == ev'.op = "process" /\ ev'.cleared
           base == IF reset THEN NoMemory ELSE sent_signals_today
       IN  /\ \A s \in Symbols :
                 (s # ev'.symbol \/ ~ev'.alerted) =>
                     sent_signals_today'[s] = base[s]
           /\ ev'.alerted =>
                 /\ sent_signals_today'[ev'.symbol] # None
                 /\ sent_signals_today'[ev'.symbol][1].signal_type
                        = ev'.signal_type
                 /\ sent_signals_today'[ev'.symbol][1].strength.num = ev'.num
           /\ (ev'.emitted /\ ev'.symbol \in Symbols /\ ~ev'.is_different) =>
                 /\ ~reset
                 /\ sent_signals_today'[ev'.symbol] # None
                 /\ last_alert[ev'.symbol] # None
                 /\ sent_signals_today'[ev'.symbol][1].signal_type
                        = last_alert[ev'.symbol][1].signal_type
                 /\ sent_signals_today'[ev'.symbol][1].strength
                        = last_alert[ev'.symbol][1].strength
      ]_vars

C27_Witness ==
    /\ ev.op = "process"
    /\ ev.emitted
    /\ ev.symbol = "A"
    /\ ~ev.is_different
    /\ sent_signals_today["A"] # None
    /\ sent_signals_today["A"][1].signal_type = ev.signal_type
    /\ sent_signals_today["B"] # None

\* C28: a null indicator is never fatal to the analysis of an instrument:
\* for every IndicatorSet, whichever of its indicators are null (ATR and the
\* Bollinger mid-band included), analyze_stock returns a Signal carrying
\* component scores, a signal type and risk metrics.
C28_NullIndicatorNotFatal ==
    (/\ an_pc = "done"
     /\ HasIndicators(all_points, feed_columns)
     /\ flow_out.status = "ok") =>
        analysis.kind = "signal"

\* C29: if the depth fetch or the recent-trades fetch of an instrument
\* fails in a cycle (zeroed DepthSnapshot or empty trade window), then
\* whenever the corresponding configured minimum (min_depth_conditions or
\* min_flow_conditions) is at least 1 the instrument's signal type is
\* NEUTRAL, so nothing is stored or alerted for it in that cycle.
C29_FailedFetchIsNeutral ==
    (/\ an_pc = "done"
     /\ \/ market_depth = NoDepth /\ cfg_min.depth >= 1
        \/ trades_data = EmptyWindow /\ cfg_min.flow >= 1) =>
        /\ analysis.signal_type = "NEUTRAL"
        /\ analysis.kind = "signal" => signal_type = "NEUTRAL"
        /\ \A min_pct \in 0..100 :
              ~PassesFilter(analysis.kind, analysis.signal_type,
                            analysis.strength, min_pct)

C29_Witness ==
    /\ an_pc = "done"
    /\ analysis.kind = "signal"
    /\ last_fetch.kind = "trades" /\ last_fetch.ret = "json"
    /\ trades_data # EmptyWindow
    /\ market_depth = NoDepth
    /\ cfg_min = [tech |-> 0, flow |-> 0, depth |-> 1]
    /\ scores.technical >= 1
    /\ scores.market_depth = 0

\* C30: every signal that passes the emission threshold is written to the
\* signal log before its alert decision is taken, also when the throttle
\* suppresses its alert: after the pass of such a signal its record is the
\* last of the log.
C30_EmittedIsLogged ==
    (ev.op = "process" /\ ev.emitted) =>
        /\ ev.stored
        /\ signal_log # <<>>
        /\ signal_log[Len(signal_log)] =
              [symbol |-> ev.symbol, signal_type |-> ev.signal_type,
               num |-> ev.num]

====
